---- MODULE Spec2Model ----
(***************************************************************************)
(* Model of the `build` and `manifest` commands of image-builder           *)
(* (cmd/image-builder/main.go): the manifest stage (cmdManifestWrapper),   *)
(* the build pipeline (cmdBuild), the progress reporter it drives and the  *)
(* signal watcher goroutine it starts.                                     *)
(*                                                                         *)
(* One behaviour is one process run.  The command line is chosen in Init;  *)
(* every external collaborator (blueprint loader, image resolution,        *)
(* manifest generator, cloud access check, build engine, upload) succeeds  *)
(* or fails nondeterministically when it returns.  Blocking stage calls    *)
(* are split into a call step and a return step so that the watcher and    *)
(* signals interleave with in-flight calls.                                *)
(***************************************************************************)
EXTENDS Integers, Sequences, FiniteSets, TLC

VARIABLES
    cmd,        \* the sub-command that runs: "build" or "manifest"
    hostArch,   \* arch.Current().String()
    flags,      \* the parsed command line flags
    args,       \* args[0], the image type
    pc,         \* position of the main flow
    result,     \* what cmdBuild / cmdManifest returned ("none" while running)
    calls,      \* log of the external stage calls and their returns, in order
    pbar,       \* the progress reporter
    bp,         \* the loaded blueprint
    distroStr,  \* the effective distro of cmdManifestWrapper
    img,        \* the resolved *imagefilter.Result (res in cmdBuild)
    uploader,   \* the uploader returned by uploaderFor
    uploadErr,  \* the error returned by uploaderFor
    outputDir,  \* the local outputDir of cmdBuild
    imagePath,  \* the artifact path handed to the upload
    buildOpts,  \* the buildOptions handed to buildImage
    watcher,    \* position of the signal watcher goroutine
    chanLen,    \* number of signals buffered in the watcher's channel c
    signals,    \* number of signals delivered to the process so far
    alive       \* the process has not exited and was not killed

vars == <<cmd, hostArch, flags, args, pc, result, calls, pbar, bp, distroStr,
          img, uploader, uploadErr, outputDir, imagePath, buildOpts, watcher,
          chanLen, signals, alive>>

inputs == <<cmd, hostArch, flags, args>>

----------------------------------------------------------------------------
(* Bounds and input domains *)

\* signals delivered to one process run
MaxSignals == 2

NULL == "nil"

Archs == {"x86_64", "aarch64"}
ArchFlags == Archs \cup {"", "sparc"}
DistroFlags == {"", "centos-9"}
BlueprintDistros == {"", "fedora-41"}
BlueprintPaths == {"", "bp.toml"}
ImgTypes == {"ami", "qcow2"}
OutputDirFlags == {"", "out", "out/"}

\* the flags of uploadCmd that buildCmd inherits
RequiredArgs == {"aws-ami-name", "aws-bucket", "aws-region"}

\* image types (or clouds) uploaderFor has an uploader for
UploadTypes == {"ami", "aws"}

DefaultDistro == "hostdistro-1"

\* capacity of the watcher's channel: make(chan os.Signal, 1)
ChanCap == 1

----------------------------------------------------------------------------
(* Pure helpers *)

\* no image resolved yet (a nil *imagefilter.Result)
NoImage == [distro |-> "", type |-> "", arch |-> ""]

\* no blueprint loaded yet
NoBlueprint == [loaded |-> FALSE, distro |-> ""]

\* no buildOptions made yet
NoBuildOptions == [OutputDir |-> ""]

\* mutant of outputNameFor: architecture and image type change places
outputNameForArchFirst(i) == i.distro \o "-" \o i.arch \o "-" \o i.type

\* generate the default output directory name for the given image
outputNameFor(i) == i.distro \o "-" \o i.type \o "-" \o i.arch

\* filepath.Clean on the directory names of the model: a trailing
\* separator is dropped
filepathClean(d) == IF d = "out/" THEN "out" ELSE d

\* filepath.Join(a, b, c) for clean, non-empty b and c: an empty a is
\* ignored, the elements are joined by the separator and the result cleaned
filepathJoin(a, b, c) ==
    IF a = "" THEN b \o "/" \o c
    ELSE filepathClean(a) \o "/" \o b \o "/" \o c

\* ImgType.Filename() of the image types of the model
Filename(t) == IF t = "ami" THEN "image.raw" ELSE "disk.qcow2"

\* mutant of archChecker: the comparison is lost
archCheckerNever(archStr, host) == NULL

\* the archChecker closure cmdBuild hands to cmdManifestWrapper:
\* the error it returns, NULL for none
archChecker(archStr, host) ==
    IF archStr # host THEN "ArchMismatch" ELSE NULL

\* archStr of cmdManifestWrapper: the flag, or the host architecture
effectiveArch(archFlag, host) == IF archFlag = "" THEN host ELSE archFlag

\* findDistro: the flag, else the blueprint's distro, else the default
findDistro(argDistro, bpDistro) ==
    IF argDistro # "" THEN argDistro
    ELSE IF bpDistro # "" THEN bpDistro
    ELSE DefaultDistro

\* a nil error; errors are records [kind, allMissing]
NilErr == [kind |-> NULL, allMissing |-> FALSE]

\* uploaderFor, without the uploader construction: the error it returns
uploaderForErr(typeOrCloud, given) ==
    IF typeOrCloud \notin UploadTypes
    THEN [kind |-> "UploadTypeUnsupported", allMissing |-> FALSE]
    ELSE IF RequiredArgs \ given # {}
    THEN [kind |-> "MissingUploadConfig",
          allMissing |-> (RequiredArgs \ given = RequiredArgs)]
    ELSE NilErr

\* errors.As(err, &missingUploadConfig): the target after the call
missingUploadConfigOf(err) ==
    IF err.kind = "MissingUploadConfig" THEN err ELSE NilErr

\* errors.As(err, &uploadUnsupported): the target after the call
uploadUnsupportedOf(err) ==
    IF err.kind = "UploadTypeUnsupported" THEN err ELSE NilErr

\* line 238: an error of uploaderFor that is returned as it is
isOtherUploaderErr(err) ==
    /\ err # NilErr
    /\ missingUploadConfigOf(err) = NilErr
    /\ uploadUnsupportedOf(err) = NilErr

\* mutant of isPartialUploadConfig: the negation of allMissing is lost
isPartialUploadConfigInverted(missingUploadConfig) ==
    /\ missingUploadConfig # NilErr
    /\ missingUploadConfig.allMissing

\* line 241: some but not all of the upload flags were given
isPartialUploadConfig(missingUploadConfig) ==
    /\ missingUploadConfig # NilErr
    /\ ~missingUploadConfig.allMissing

\* mutant of hasUploader: the nil check is lost
hasUploaderAlways(u) == TRUE

\* lines 245 and 267: uploader != nil
hasUploader(u) == u # NULL

----------------------------------------------------------------------------
(* The progress reporter *)

NewPbar == [state |-> "new", pulse |-> "", msg |-> "",
            stopCalls |-> 0, stopped |-> 0, earlySets |-> 0, lateSets |-> 0]

pbarStart(p) == [p EXCEPT !.state = "running"]

\* Stop is idempotent: only a running reporter changes state
pbarStop(p) ==
    [p EXCEPT !.state = IF p.state = "running" THEN "stopped" ELSE p.state,
              !.stopCalls = p.stopCalls + 1,
              !.stopped = IF p.state = "running" THEN p.stopped + 1 ELSE p.stopped]

\* the setters; the reporter remembers a call on a reporter that was not
\* started (earlySets) or was already stopped (lateSets)
pbarSetPulseMsgf(p, m) ==
    [p EXCEPT !.pulse = m,
              !.earlySets = IF p.state = "new" THEN 1 ELSE p.earlySets,
              !.lateSets = IF p.state = "stopped" THEN 1 ELSE p.lateSets]

pbarSetMessagef(p, m) ==
    [p EXCEPT !.msg = m,
              !.earlySets = IF p.state = "new" THEN 1 ELSE p.earlySets,
              !.lateSets = IF p.state = "stopped" THEN 1 ELSE p.lateSets]

----------------------------------------------------------------------------
(* Initial state: a command line and a host *)

Init ==
    /\ cmd \in {"build", "manifest"}
    /\ hostArch \in Archs
    /\ args \in ImgTypes
    /\ flags \in [arch : ArchFlags, distro : DistroFlags,
                  blueprint : BlueprintPaths, outputDir : OutputDirFlags,
                  upload : SUBSET RequiredArgs]
    \* manifestCmd has none of the upload flags
    /\ cmd = "manifest" => flags.upload = {}
    /\ pc = "start"
    /\ result = "none"
    /\ calls = <<>>
    /\ pbar = NewPbar
    /\ bp = NoBlueprint
    /\ distroStr = ""
    /\ img = NoImage
    /\ uploader = NULL
    /\ uploadErr = NilErr
    /\ outputDir = ""
    /\ imagePath = ""
    /\ buildOpts = NoBuildOptions
    /\ watcher = "none"
    /\ chanLen = 0
    /\ signals = 0
    /\ alive = TRUE

Log(stage, event) == calls' = Append(calls, <<stage, event>>)

\* mutant of Return: Stop is called at the end of cmdBuild, not deferred
ReturnStopsOnSuccessOnly(r, p) ==
    /\ pc' = "done"
    /\ result' = r
    /\ pbar' = IF cmd = "build" /\ r = "ok" THEN pbarStop(p) ELSE p

\* mutant of Return: the deferred pbar.Stop() is lost
ReturnWithoutStop(r, p) ==
    /\ pc' = "done"
    /\ result' = r
    /\ pbar' = p

\* a return of the command: cmdBuild runs its deferred pbar.Stop()
Return(r, p) ==
    /\ pc' = "done"
    /\ result' = r
    /\ pbar' = IF cmd = "build" THEN pbarStop(p) ELSE p

----------------------------------------------------------------------------
(* cmdManifest and the start of cmdBuild *)

\* cmdManifest, lines 173-177: a fresh reporter that is never started
ManifestStart ==
    /\ alive /\ cmd = "manifest" /\ pc = "start"
    /\ pbar' = NewPbar
    /\ pc' = "loadBlueprint"
    /\ UNCHANGED <<inputs, result, calls, bp, distroStr, img, uploader, uploadErr,
                   outputDir, imagePath, buildOpts, watcher, chanLen, signals, alive>>

\* cmdBuild, lines 198-221: read the flags, create and start the reporter,
\* defer its Stop and spawn the watcher; progress.New can fail
BuildStart ==
    /\ alive /\ cmd = "build" /\ pc = "start"
    /\ \E ok \in BOOLEAN :
        IF ok
        THEN /\ pbar' = pbarStart(NewPbar)
             /\ outputDir' = flags.outputDir
             /\ watcher' = "spawned"
             /\ pc' = "loadBlueprint"
             /\ UNCHANGED result
        ELSE /\ pc' = "done"
             /\ result' = "ProgressErr"
             /\ UNCHANGED <<pbar, outputDir, watcher>>
    /\ UNCHANGED <<inputs, calls, bp, distroStr, img, uploader, uploadErr,
                   imagePath, buildOpts, chanLen, signals, alive>>

----------------------------------------------------------------------------
(* cmdManifestWrapper *)

\* mutant of LoadBlueprint: the error of the loader is ignored
LoadBlueprintIgnoresErr ==
    /\ alive /\ pc = "loadBlueprint"
    /\ \E ok \in BOOLEAN, d \in BlueprintDistros :
        /\ flags.blueprint = "" => (ok /\ d = "")
        /\ ~ok => d = ""
        /\ bp' = [loaded |-> ok, distro |-> d]
        /\ Log("blueprintLoad", IF ok THEN "ok" ELSE "err")
        /\ pc' = "findDistro"
        /\ UNCHANGED <<result, pbar>>
    /\ UNCHANGED <<inputs, distroStr, img, uploader, uploadErr, outputDir,
                   imagePath, buildOpts, watcher, chanLen, signals, alive>>

\* lines 131-134: blueprintload.Load; no path gives an empty blueprint
LoadBlueprint ==
    /\ alive /\ pc = "loadBlueprint"
    /\ \E ok \in BOOLEAN, d \in BlueprintDistros :
        /\ flags.blueprint = "" => (ok /\ d = "")
        /\ IF ok
           THEN /\ bp' = [loaded |-> TRUE, distro |-> d]
                /\ Log("blueprintLoad", "ok")
                /\ pc' = "findDistro"
                /\ UNCHANGED <<result, pbar>>
           ELSE /\ Log("blueprintLoad", "err")
                /\ Return("BlueprintErr", pbar)
                /\ UNCHANGED bp
    /\ UNCHANGED <<inputs, distroStr, img, uploader, uploadErr, outputDir, imagePath, buildOpts,
                   watcher, chanLen, signals, alive>>

\* mutant of FindDistro: the pulse and the detail message are not set here
FindDistroWithoutMessages ==
    /\ alive /\ pc = "findDistro"
    /\ \E ok \in BOOLEAN :
        /\ (flags.distro # "" \/ bp.distro # "") => ok
        /\ IF ok
           THEN /\ distroStr' = findDistro(flags.distro, bp.distro)
                /\ Log("findDistro", "ok")
                /\ pc' = "getOneImage"
                /\ UNCHANGED <<result, pbar>>
           ELSE /\ Log("findDistro", "err")
                /\ Return("DistroErr", pbar)
                /\ UNCHANGED distroStr
    /\ UNCHANGED <<inputs, bp, img, uploader, uploadErr, outputDir, imagePath,
                   buildOpts, watcher, chanLen, signals, alive>>

\* lines 136-142: findDistro, then the pulse and the detail message
FindDistro ==
    /\ alive /\ pc = "findDistro"
    /\ \E ok \in BOOLEAN :
        \* only the detection of the host's distro can fail
        /\ (flags.distro # "" \/ bp.distro # "") => ok
        /\ IF ok
           THEN /\ distroStr' = findDistro(flags.distro, bp.distro)
                /\ Log("findDistro", "ok")
                /\ pbar' = pbarSetMessagef(
                              pbarSetPulseMsgf(pbar, "Manifest generation step"),
                              "Building manifest for "
                                \o findDistro(flags.distro, bp.distro)
                                \o "-" \o args)
                /\ pc' = "getOneImage"
                /\ UNCHANGED result
           ELSE /\ Log("findDistro", "err")
                /\ Return("DistroErr", pbar)
                /\ UNCHANGED distroStr
    /\ UNCHANGED <<inputs, bp, img, uploader, uploadErr, outputDir, imagePath, buildOpts,
                   watcher, chanLen, signals, alive>>

\* lines 149-152: getOneImage; an unknown architecture never resolves
GetOneImage ==
    /\ alive /\ pc = "getOneImage"
    /\ \E ok \in BOOLEAN :
        /\ effectiveArch(flags.arch, hostArch) \notin Archs => ~ok
        /\ IF ok
           THEN /\ img' = [distro |-> distroStr, type |-> args,
                           arch |-> effectiveArch(flags.arch, hostArch)]
                /\ Log("getOneImage", "ok")
                /\ pc' = "archChecker"
                /\ UNCHANGED <<result, pbar>>
           ELSE /\ Log("getOneImage", "err")
                /\ Return("ImageErr", pbar)
                /\ UNCHANGED img
    /\ UNCHANGED <<inputs, bp, distroStr, uploader, uploadErr, outputDir, imagePath, buildOpts,
                   watcher, chanLen, signals, alive>>

\* mutant of hasArchChecker: cmdManifest passes the callback too
hasArchCheckerAlways(c) == TRUE

\* archChecker != nil: only cmdBuild passes the callback
hasArchChecker(c) == c = "build"

\* lines 153-157: the architecture check, when the caller gave one
ArchCheck ==
    /\ alive /\ pc = "archChecker"
    /\ IF hasArchChecker(cmd) /\ archChecker(img.arch, hostArch) # NULL
       THEN /\ Log("archChecker", "err")
            /\ Return(archChecker(img.arch, hostArch), pbar)
       ELSE /\ pc' = "generateManifest"
            /\ calls' = IF hasArchChecker(cmd)
                        THEN Append(calls, <<"archChecker", "ok">>)
                        ELSE calls
            /\ UNCHANGED <<result, pbar>>
    /\ UNCHANGED <<inputs, bp, distroStr, img, uploader, uploadErr, outputDir, imagePath, buildOpts,
                   watcher, chanLen, signals, alive>>

\* lines 159-168: the call of generateManifest
GenerateManifestCall ==
    /\ alive /\ pc = "generateManifest"
    /\ Log("generateManifest", "call")
    /\ pc' = "generateManifestWait"
    /\ UNCHANGED <<inputs, result, pbar, bp, distroStr, img, uploader, uploadErr,
                   outputDir, imagePath, buildOpts, watcher, chanLen, signals, alive>>

\* mutant of GenerateManifestReturn: cmdBuild ignores the error
GenerateManifestReturnIgnoresErr ==
    /\ alive /\ pc = "generateManifestWait"
    /\ \E ok \in BOOLEAN :
        /\ Log("generateManifest", IF ok THEN "ok" ELSE "err")
        /\ IF cmd = "build"
           THEN /\ pc' = "uploaderFor"
                /\ UNCHANGED <<result, pbar>>
           ELSE Return(IF ok THEN "ok" ELSE "ManifestErr", pbar)
    /\ UNCHANGED <<inputs, bp, distroStr, img, uploader, uploadErr, outputDir,
                   imagePath, buildOpts, watcher, chanLen, signals, alive>>

\* lines 168-169 and 177-178, 231-233: generateManifest returns, and with it
\* cmdManifestWrapper; cmdManifest returns its error, cmdBuild goes on
GenerateManifestReturn ==
    /\ alive /\ pc = "generateManifestWait"
    /\ \E ok \in BOOLEAN :
        IF ok
        THEN /\ Log("generateManifest", "ok")
             /\ IF cmd = "build"
                THEN /\ pc' = "uploaderFor"
                     /\ UNCHANGED <<result, pbar>>
                ELSE Return("ok", pbar)
        ELSE /\ Log("generateManifest", "err")
             /\ Return("ManifestErr", pbar)
    /\ UNCHANGED <<inputs, bp, distroStr, img, uploader, uploadErr, outputDir, imagePath, buildOpts,
                   watcher, chanLen, signals, alive>>

----------------------------------------------------------------------------
(* cmdBuild after the manifest stage *)

\* mutant of afterUploadConfig: the access check is left out
afterUploadConfigSkipsCheck(u) == "buildImage"

\* where cmdBuild goes after a successful access check or without uploader
afterUploadConfig(u) == IF hasUploader(u) THEN "uploaderCheck" ELSE "buildImage"

\* lines 235-243: uploaderFor and the classification of its error;
\* with a complete configuration the construction of the uploader can fail
UploaderFor ==
    /\ alive /\ pc = "uploaderFor"
    /\ \E built \in BOOLEAN :
        LET cfgErr == uploaderForErr(img.type, flags.upload)
            err == IF cfgErr = NilErr /\ ~built
                   THEN [kind |-> "UploaderErr", allMissing |-> FALSE]
                   ELSE cfgErr
            u == IF err = NilErr THEN "awsUploader" ELSE NULL
        IN  /\ cfgErr # NilErr => built
            /\ Log("uploaderFor", IF err = NilErr THEN "ok" ELSE err.kind)
            /\ IF isOtherUploaderErr(err)
               THEN /\ Return(err.kind, pbar)
                    /\ UNCHANGED uploader
               ELSE IF isPartialUploadConfig(missingUploadConfigOf(err))
               THEN /\ Return("PartialUploadConfig", pbar)
                    /\ UNCHANGED uploader
               ELSE /\ uploader' = u
                    /\ pc' = afterUploadConfig(u)
                    /\ UNCHANGED <<result, pbar>>
            /\ uploadErr' = err
    /\ UNCHANGED <<inputs, bp, distroStr, img, outputDir, imagePath, buildOpts,
                   watcher, chanLen, signals, alive>>

\* mutant of UploaderCheckCall: the reporter is stopped for the access check
UploaderCheckCallStopsReporter ==
    /\ alive /\ pc = "uploaderCheck"
    /\ pbar' = pbarStop(pbarSetPulseMsgf(pbar, "Checking cloud access"))
    /\ Log("uploaderCheck", "call")
    /\ pc' = "uploaderCheckWait"
    /\ UNCHANGED <<inputs, result, bp, distroStr, img, uploader, uploadErr,
                   outputDir, imagePath, buildOpts, watcher, chanLen, signals,
                   alive>>

\* lines 245-247: the pulse and the call of uploaderCheckWithProgress
UploaderCheckCall ==
    /\ alive /\ pc = "uploaderCheck"
    /\ pbar' = pbarSetPulseMsgf(pbar, "Checking cloud access")
    /\ Log("uploaderCheck", "call")
    /\ pc' = "uploaderCheckWait"
    /\ UNCHANGED <<inputs, result, bp, distroStr, img, uploader, uploadErr,
                   outputDir, imagePath, buildOpts, watcher, chanLen, signals, alive>>

\* mutant of UploaderCheckReturn: the error is ignored
UploaderCheckReturnIgnoresErr ==
    /\ alive /\ pc = "uploaderCheckWait"
    /\ \E ok \in BOOLEAN :
        /\ Log("uploaderCheck", IF ok THEN "ok" ELSE "err")
        /\ pc' = "buildImage"
        /\ UNCHANGED <<result, pbar>>
    /\ UNCHANGED <<inputs, bp, distroStr, img, uploader, uploadErr, outputDir,
                   imagePath, buildOpts, watcher, chanLen, signals, alive>>

\* lines 247-250: uploaderCheckWithProgress returns
UploaderCheckReturn ==
    /\ alive /\ pc = "uploaderCheckWait"
    /\ \E ok \in BOOLEAN :
        IF ok
        THEN /\ Log("uploaderCheck", "ok")
             /\ pc' = "buildImage"
             /\ UNCHANGED <<result, pbar>>
        ELSE /\ Log("uploaderCheck", "err")
             /\ Return("AccessCheckErr", pbar)
    /\ UNCHANGED <<inputs, bp, distroStr, img, uploader, uploadErr, outputDir, imagePath, buildOpts,
                   watcher, chanLen, signals, alive>>

\* lines 254-256: the output directory handed to the build engine
effectiveOutputDir(dir, i) == IF dir = "" THEN outputNameFor(i) ELSE dir

\* lines 254-263: the output directory, the pulse and the call of buildImage
BuildImageCall ==
    /\ alive /\ pc = "buildImage"
    /\ outputDir' = effectiveOutputDir(outputDir, img)
    /\ buildOpts' = [OutputDir |-> effectiveOutputDir(outputDir, img)]
    /\ pbar' = pbarSetPulseMsgf(pbar, "Image building step")
    /\ Log("buildImage", "call")
    /\ pc' = "buildImageWait"
    /\ UNCHANGED <<inputs, result, bp, distroStr, img, uploader, uploadErr,
                   imagePath, watcher, chanLen, signals, alive>>

\* where cmdBuild goes after a successful build
afterBuild(u) == IF hasUploader(u) THEN "uploadImage" ELSE "return"

\* mutant of BuildImageReturn: the error is ignored
BuildImageReturnIgnoresErr ==
    /\ alive /\ pc = "buildImageWait"
    /\ \E ok \in BOOLEAN :
        /\ Log("buildImage", IF ok THEN "ok" ELSE "err")
        /\ pc' = afterBuild(uploader)
        /\ UNCHANGED <<result, pbar>>
    /\ UNCHANGED <<inputs, bp, distroStr, img, uploader, uploadErr, outputDir,
                   imagePath, buildOpts, watcher, chanLen, signals, alive>>

\* lines 263-265: buildImage returns
BuildImageReturn ==
    /\ alive /\ pc = "buildImageWait"
    /\ \E ok \in BOOLEAN :
        IF ok
        THEN /\ Log("buildImage", "ok")
             /\ pc' = afterBuild(uploader)
             /\ UNCHANGED <<result, pbar>>
        ELSE /\ Log("buildImage", "err")
             /\ Return("BuildErr", pbar)
    /\ UNCHANGED <<inputs, bp, distroStr, img, uploader, uploadErr, outputDir, imagePath, buildOpts,
                   watcher, chanLen, signals, alive>>

\* mutant of UploadImageCall: the path is made from the --output-dir flag
UploadImageCallFlagDir ==
    /\ alive /\ pc = "uploadImage"
    /\ pbar' = pbarStop(pbar)
    /\ imagePath' = filepathJoin(flags.outputDir, img.type, Filename(img.type))
    /\ Log("uploadImage", "call")
    /\ pc' = "uploadImageWait"
    /\ UNCHANGED <<inputs, result, bp, distroStr, img, uploader, uploadErr,
                   outputDir, buildOpts, watcher, chanLen, signals, alive>>

\* mutant of UploadImageCall: the reporter is not stopped before the upload
UploadImageCallWithoutStop ==
    /\ alive /\ pc = "uploadImage"
    /\ imagePath' = filepathJoin(outputDir, img.type, Filename(img.type))
    /\ Log("uploadImage", "call")
    /\ pc' = "uploadImageWait"
    /\ UNCHANGED <<inputs, result, pbar, bp, distroStr, img, uploader, uploadErr,
                   outputDir, buildOpts, watcher, chanLen, signals, alive>>

\* lines 267-272: stop the reporter, derive the artifact path, call the upload
UploadImageCall ==
    /\ alive /\ pc = "uploadImage"
    /\ pbar' = pbarStop(pbar)
    /\ imagePath' = filepathJoin(outputDir, img.type, Filename(img.type))
    /\ Log("uploadImage", "call")
    /\ pc' = "uploadImageWait"
    /\ UNCHANGED <<inputs, result, bp, distroStr, img, uploader, uploadErr,
                   outputDir, buildOpts, watcher, chanLen, signals, alive>>

\* mutant of UploadImageReturn: the error is ignored
UploadImageReturnIgnoresErr ==
    /\ alive /\ pc = "uploadImageWait"
    /\ \E ok \in BOOLEAN :
        /\ Log("uploadImage", IF ok THEN "ok" ELSE "err")
        /\ pc' = "return"
        /\ UNCHANGED <<result, pbar>>
    /\ UNCHANGED <<inputs, bp, distroStr, img, uploader, uploadErr, outputDir,
                   imagePath, buildOpts, watcher, chanLen, signals, alive>>

\* lines 272-274: uploadImageWithProgress returns
UploadImageReturn ==
    /\ alive /\ pc = "uploadImageWait"
    /\ \E ok \in BOOLEAN :
        IF ok
        THEN /\ Log("uploadImage", "ok")
             /\ pc' = "return"
             /\ UNCHANGED <<result, pbar>>
        ELSE /\ Log("uploadImage", "err")
             /\ Return("UploadErr", pbar)
    /\ UNCHANGED <<inputs, bp, distroStr, img, uploader, uploadErr, outputDir, imagePath, buildOpts,
                   watcher, chanLen, signals, alive>>

\* line 277: return nil
BuildReturn ==
    /\ alive /\ pc = "return"
    /\ Return("ok", pbar)
    /\ UNCHANGED <<inputs, calls, bp, distroStr, img, uploader, uploadErr, outputDir,
                   imagePath, buildOpts, watcher, chanLen, signals, alive>>

----------------------------------------------------------------------------
(* The signal watcher goroutine of cmdBuild, the signals and the exit *)

\* lines 217-218: make the channel and register it for the signals
WatcherNotify ==
    /\ alive /\ watcher = "spawned"
    /\ watcher' = "waiting"
    /\ UNCHANGED <<inputs, pc, result, calls, pbar, bp, distroStr, img,
                   uploader, uploadErr, outputDir, imagePath, buildOpts, chanLen, signals, alive>>

\* line 219: <-c
WatcherReceive ==
    /\ alive /\ watcher = "waiting" /\ chanLen > 0
    /\ chanLen' = chanLen - 1
    /\ watcher' = "received"
    /\ UNCHANGED <<inputs, pc, result, calls, pbar, bp, distroStr, img,
                   uploader, uploadErr, outputDir, imagePath, buildOpts, signals, alive>>

\* line 220: pbar.Stop(), after which the goroutine ends
WatcherStop ==
    /\ alive /\ watcher = "received"
    /\ pbar' = pbarStop(pbar)
    /\ watcher' = "exited"
    /\ UNCHANGED <<inputs, pc, result, calls, bp, distroStr, img,
                   uploader, uploadErr, outputDir, imagePath, buildOpts, chanLen, signals, alive>>

\* signal.Notify was called: the signals go to the channel
notifyRegistered(w) == w \in {"waiting", "received", "exited"}

\* an interrupt or termination signal arrives: it is sent to the channel
\* without blocking (dropped when the buffer is full) once Notify registered
\* it, and it terminates the process before that
Signal ==
    /\ alive /\ signals < MaxSignals
    /\ signals' = signals + 1
    /\ IF notifyRegistered(watcher)
       THEN /\ chanLen' = IF chanLen < ChanCap THEN chanLen + 1 ELSE chanLen
            /\ UNCHANGED <<pc, alive>>
       ELSE /\ alive' = FALSE
            /\ pc' = IF pc = "done" THEN pc ELSE "killed"
            /\ UNCHANGED chanLen
    /\ UNCHANGED <<inputs, result, calls, pbar, bp, distroStr, img,
                   uploader, uploadErr, outputDir, imagePath, buildOpts, watcher>>

\* run and main, lines 408-415: the command returned, the process exits
ProcessExit ==
    /\ alive /\ pc = "done"
    /\ alive' = FALSE
    /\ UNCHANGED <<inputs, pc, result, calls, pbar, bp, distroStr, img,
                   uploader, uploadErr, outputDir, imagePath, buildOpts, watcher, chanLen, signals>>

----------------------------------------------------------------------------

Next ==
    \/ ManifestStart
    \/ BuildStart
    \/ LoadBlueprint
    \/ FindDistro
    \/ GetOneImage
    \/ ArchCheck
    \/ GenerateManifestCall
    \/ GenerateManifestReturn
    \/ UploaderFor
    \/ UploaderCheckCall
    \/ UploaderCheckReturn
    \/ BuildImageCall
    \/ BuildImageReturn
    \/ UploadImageCall
    \/ UploadImageReturn
    \/ BuildReturn
    \/ WatcherNotify
    \/ WatcherReceive
    \/ WatcherStop
    \/ Signal
    \/ ProcessExit

\* a step of the main flow: of cmdManifest, or of cmdBuild and its callees
MainStep ==
    \/ ManifestStart
    \/ BuildStart
    \/ LoadBlueprint
    \/ FindDistro
    \/ GetOneImage
    \/ ArchCheck
    \/ GenerateManifestCall
    \/ GenerateManifestReturn
    \/ UploaderFor
    \/ UploaderCheckCall
    \/ UploaderCheckReturn
    \/ BuildImageCall
    \/ BuildImageReturn
    \/ UploadImageCall
    \/ UploadImageReturn
    \/ BuildReturn

Spec == Init /\ [][Next]_vars

\* the main goroutine keeps running and every blocking call of it returns;
\* the watcher goroutine is scheduled once it has received a signal
FairSpec == Spec /\ WF_vars(MainStep) /\ WF_vars(WatcherStop)

TypeOK ==
    /\ cmd \in {"build", "manifest"}
    /\ hostArch \in Archs
    /\ args \in ImgTypes
    /\ result \in {"none", "ok", "ProgressErr", "BlueprintErr", "DistroErr",
                   "ImageErr", "ArchMismatch", "ManifestErr", "UploaderErr",
                   "PartialUploadConfig", "AccessCheckErr", "BuildErr",
                   "UploadErr"}
    /\ pbar.state \in {"new", "running", "stopped"}
    /\ uploader \in {NULL, "awsUploader"}
    /\ uploadErr.kind \in {NULL, "UploadTypeUnsupported", "MissingUploadConfig",
                           "UploaderErr"}
    /\ watcher \in {"none", "spawned", "waiting", "received", "exited"}
    /\ chanLen \in 0..ChanCap
    /\ signals \in 0..MaxSignals
    /\ alive \in BOOLEAN
    /\ (result = "none") = (pc # "done")

----------------------------------------------------------------------------
(* Properties of the pipeline *)

\* the log holds the entry <<stage, event>>
Has(stage, event) == \E i \in 1..Len(calls) : calls[i] = <<stage, event>>

\* how often the log holds the entry <<stage, event>>
Count(stage, event) ==
    Cardinality({i \in 1..Len(calls) : calls[i] = <<stage, event>>})

\* every entry e2 of the log has an entry e1 before it
Precedes(e1, e2) ==
    \A j \in 1..Len(calls) :
        calls[j] = e2 => \E i \in 1..(j - 1) : calls[i] = e1

\* the stage was called (and maybe returned) before position j of the log
StageBefore(stage, j) == \E i \in 1..(j - 1) : calls[i][1] = stage

\* the stages of the pipeline and the error cmdBuild returns for each
Stages == {"generateManifest", "uploaderCheck", "buildImage", "uploadImage"}

StageErr(stage) ==
    CASE stage = "generateManifest" -> "ManifestErr"
      [] stage = "uploaderCheck" -> "AccessCheckErr"
      [] stage = "buildImage" -> "BuildErr"
      [] stage = "uploadImage" -> "UploadErr"

\* the errors with which cmdManifestWrapper returns
ManifestStageErrs ==
    {"BlueprintErr", "DistroErr", "ImageErr", "ArchMismatch", "ManifestErr"}

\* C1: when uploaderFor returns a MissingUploadConfigError that is not
\* allMissing, cmdBuild returns the "partial upload config provided" error
\* at once and buildImage is never called in the run.
C1_PartialUploadConfigIsFatal ==
    (uploadErr.kind = "MissingUploadConfig" /\ ~uploadErr.allMissing)
        => /\ pc = "done"
           /\ result = "PartialUploadConfig"
           /\ ~Has("buildImage", "call")

C1_Witness ==
    /\ cmd = "build" /\ args = "ami" /\ flags.upload = {"aws-bucket"}
    /\ Has("uploaderFor", "MissingUploadConfig")
    /\ result = "PartialUploadConfig"

\* C2: a build without any upload flag gets no uploader from uploaderFor
\* (all fields missing, or no upload for the type) and never calls the
\* access check or the upload, whatever the image type and the outcomes.
C2_NoUploadFlagsNoUpload ==
    (cmd = "build" /\ flags.upload = {})
        => /\ uploader = NULL
           /\ uploadErr.kind = "MissingUploadConfig" => uploadErr.allMissing
           /\ ~Has("uploaderCheck", "call")
           /\ ~Has("uploadImage", "call")

C2_Witness ==
    /\ cmd = "build" /\ flags.upload = {} /\ args = "ami"
    /\ uploadErr.kind = "MissingUploadConfig" /\ uploadErr.allMissing
    /\ Has("buildImage", "ok")
    /\ result = "ok"

\* C3: the upload is called at most once in a run, and only after buildImage
\* has returned success in that run.
C3_UploadOnceAfterBuild ==
    /\ Count("uploadImage", "call") <= 1
    /\ Precedes(<<"buildImage", "ok">>, <<"uploadImage", "call">>)

C3_Witness ==
    /\ Has("buildImage", "ok")
    /\ Has("uploadImage", "call")
    /\ pc = "uploadImageWait"

\* C4, as claimed: for an image type without upload support, a build without
\* upload flags runs the build engine, uploads nothing and succeeds when the
\* build succeeds, and a build with any upload flag ends with an error.
C4_UnsupportedTypeEscalates ==
    (uploadErr.kind = "UploadTypeUnsupported" /\ pc = "done")
        => IF flags.upload = {}
           THEN /\ Has("buildImage", "call")
                /\ ~Has("uploadImage", "call")
                /\ Has("buildImage", "ok") => result = "ok"
           ELSE result \notin {"none", "ok"}

C6_AccessCheckBeforeTransfer ==
    /\ Precedes(<<"uploaderCheck", "call">>, <<"uploaderCheck", "ok">>)
    /\ Precedes(<<"uploaderCheck", "ok">>, <<"uploadImage", "call">>)
    /\ Has("uploaderCheck", "err")
           => /\ pc = "done"
              /\ result = "AccessCheckErr"
              /\ ~Has("uploadImage", "call")

C6_Witness ==
    /\ Has("uploaderCheck", "ok")
    /\ Has("uploadImage", "ok")
    /\ result = "ok"

\* C7: buildImage is called only after generateManifest, and with it the
\* manifest stage, has returned success; it is never called in a run whose
\* manifest stage returned an error.
C7_ManifestBeforeBuild ==
    /\ Precedes(<<"generateManifest", "ok">>, <<"buildImage", "call">>)
    /\ (Has("generateManifest", "err") \/ result \in ManifestStageErrs)
           => ~Has("buildImage", "call")

C7_Witness ==
    /\ Has("generateManifest", "ok")
    /\ Has("buildImage", "call")
    /\ uploader = NULL

\* C8: an error of a stage (manifest generation, access check, build,
\* upload) is the last event of the run: cmdBuild has returned that stage's
\* error, no stage is called after it, and no stage is called twice.
C8_StageErrorAborts ==
    /\ \A i \in 1..Len(calls) :
           (calls[i][1] \in Stages /\ calls[i][2] = "err")
               => /\ i = Len(calls)
                  /\ pc = "done"
                  /\ result = StageErr(calls[i][1])
    /\ \A s \in Stages : Count(s, "call") <= 1

C8_Witness ==
    /\ cmd = "build"
    /\ Has("buildImage", "ok")
    /\ Has("uploadImage", "err")
    /\ result = "UploadErr"

\* C9, as claimed, for the builds that get as far as the image resolution:
\* a build for an architecture other than the host's returns the
\* architecture mismatch error; a manifest run never returns it and succeeds
\* when generateManifest succeeds.
C9_BuildFailsWithArchMismatch ==
    /\ (cmd = "build" /\ pc = "done"
            /\ effectiveArch(flags.arch, hostArch) # hostArch
            /\ (Has("getOneImage", "ok") \/ Has("getOneImage", "err")))
           => result = "ArchMismatch"
    /\ cmd = "manifest"
           => /\ result # "ArchMismatch"
              /\ Has("generateManifest", "ok") => result = "ok"

\* C9, amended: a build for an architecture other than the host's never
\* succeeds, and returns the architecture mismatch error when the reporter,
\* the blueprint, the distro and the image were resolved; a manifest run
\* never returns it and succeeds when generateManifest succeeds.
C9_ArchMismatchOnlyOnBuild ==
    /\ (cmd = "build" /\ pc = "done"
            /\ effectiveArch(flags.arch, hostArch) # hostArch)
           => /\ result # "ok"
              /\ Has("getOneImage", "ok") => result = "ArchMismatch"
    /\ cmd = "manifest"
           => /\ result # "ArchMismatch"
              /\ ~Has("archChecker", "ok") /\ ~Has("archChecker", "err")
              /\ Has("generateManifest", "ok") => result = "ok"

C9_Witness ==
    /\ cmd = "build" /\ pc = "done"
    /\ img.arch # hostArch
    /\ result = "ArchMismatch"

\* C10, as claimed: the architecture mismatch of a build is returned after
\* generateManifest was called and returned success, and before buildImage.
C10_MismatchAfterManifest ==
    (cmd = "build" /\ result = "ArchMismatch")
        => /\ Has("generateManifest", "ok")
           /\ ~Has("buildImage", "call")

\* C10, amended: the architecture mismatch of a build is returned after the
\* image was resolved and before generateManifest is called: in a build for
\* another architecture neither generateManifest nor buildImage is called.
C10_MismatchBeforeManifest ==
    /\ (cmd = "build" /\ result = "ArchMismatch")
           => /\ Has("getOneImage", "ok")
              /\ calls[Len(calls)] = <<"archChecker", "err">>
    /\ (cmd = "build" /\ effectiveArch(flags.arch, hostArch) # hostArch)
           => /\ ~Has("generateManifest", "call")
              /\ ~Has("buildImage", "call")

C10_Witness ==
    /\ cmd = "build" /\ args = "qcow2"
    /\ flags.arch = "aarch64" /\ hostArch = "x86_64"
    /\ Has("getOneImage", "ok")
    /\ result = "ArchMismatch"

\* cmdBuild has started the reporter and has returned
BuildReturned == cmd = "build" /\ pc = "done" /\ result # "ProgressErr"

\* C11: with Stop called by the watcher, before the upload and on return of
\* cmdBuild, in any order, the reporter goes from running to stopped at most
\* once and exactly once by the return of cmdBuild; a watcher that received a
\* signal completes its Stop unless the process ends first, and cmdBuild
\* reaches its return whatever the watcher does.
C11_StopFromBothPaths ==
    /\ [](pbar.stopped <= 1)
    /\ [](BuildReturned => (pbar.stopped = 1 /\ pbar.state = "stopped"))
    /\ (watcher = "received") ~> (watcher = "exited" \/ ~alive)
    /\ (watcher = "received") ~> (pc = "done")

\* the watcher, the stop before the upload and the deferred stop all ran
C11_Witness ==
    /\ BuildReturned
    /\ watcher = "exited"
    /\ pbar.stopCalls = 3
    /\ pbar.stopped = 1

\* what the main flow has computed, called and returned, and whether it runs
mainState == <<pc, result, calls, bp, distroStr, img, uploader, uploadErr,
               outputDir, imagePath, buildOpts, alive>>

\* a step of a signal delivery or of the watcher goroutine
SignalOrWatcherStep ==
    \/ signals' # signals
    \/ chanLen' # chanLen
    \/ (watcher # "none" /\ watcher' # watcher)

\* C12, as claimed: wherever a signal is delivered in a build that has
\* started its watcher goroutine, the delivery and the watcher change nothing
\* of the main flow (its position, its stage calls, its result) and at most
\* stop the reporter, and the main flow can always take its next step: no
\* call in flight is cancelled.
C12_SignalsOnlyStopReporter ==
    /\ [][(cmd = "build" /\ watcher # "none" /\ SignalOrWatcherStep)
            => /\ UNCHANGED mainState
               /\ pbar' \in {pbar, pbarStop(pbar)}]_vars
    /\ []((cmd = "build" /\ alive /\ pc # "done") => ENABLED MainStep)

\* the same, for the signals delivered once signal.Notify has registered
\* the watcher's channel
C12_AfterNotify ==
    [][(cmd = "build" /\ SignalOrWatcherStep /\ notifyRegistered(watcher))
            => /\ UNCHANGED mainState
               /\ pbar' \in {pbar, pbarStop(pbar)}]_vars

\* C13: from the call of the upload on, so while the upload is in flight
\* and after it, the reporter is stopped: it was stopped before the call.
C13_StoppedDuringUpload ==
    /\ pc = "uploadImageWait" => pbar.state = "stopped"
    /\ Has("uploadImage", "call") => (pbar.state = "stopped" /\ pbar.stopped = 1)

\* the upload is in flight and the stop before it is the only Stop so far
C13_Witness ==
    /\ pc = "uploadImageWait"
    /\ pbar.stopCalls = 1
    /\ pbar.state = "stopped"
    /\ signals = 0

\* the stage has an entry in the log: it was called
Invoked(stage) == \E i \in 1..Len(calls) : calls[i][1] = stage

\* the detail message of the manifest stage
ManifestMessage == "Building manifest for " \o distroStr \o "-" \o args

\* C14, as claimed: the pulse "Manifest generation step" and the detail
\* message are set only after the image was resolved, and a run whose image
\* resolution fails never sets them.
C14_MessagesAfterImageResolution ==
    /\ (pbar.pulse = "Manifest generation step" \/ pbar.msg # "")
           => Has("getOneImage", "ok")
    /\ Has("getOneImage", "err")
           => (pbar.pulse # "Manifest generation step" /\ pbar.msg = "")

\* C14, amended: the pulse and the detail message are set after the distro
\* was resolved and before the image resolution is attempted: they are set
\* whenever getOneImage was called, also when it failed, and are not set in
\* a run whose blueprint or distro resolution failed.
C14_MessagesBeforeImageResolution ==
    /\ (pbar.pulse # "" \/ pbar.msg # "") => Has("findDistro", "ok")
    /\ Has("findDistro", "ok") => pbar.msg = ManifestMessage
    /\ (Has("findDistro", "ok") /\ ~Invoked("uploaderFor"))
           => pbar.pulse = "Manifest generation step"
    /\ Has("getOneImage", "err")
           => (pbar.pulse = "Manifest generation step"
               /\ pbar.msg = ManifestMessage)
    /\ (Has("blueprintLoad", "err") \/ Has("findDistro", "err"))
           => (pbar.pulse = "" /\ pbar.msg = "")

\* the image resolution failed with the pulse and the message already set
C14_Witness ==
    /\ Has("getOneImage", "err")
    /\ result = "ImageErr"
    /\ pbar.pulse = "Manifest generation step"
    /\ pbar.msg = "Building manifest for centos-9-qcow2"

\* C15: when the blueprint fails to load the image resolution is never
\* attempted, and when the blueprint, the distro or the image fails to
\* resolve, none of generateManifest, uploaderFor, the access check,
\* buildImage and the upload is called and that error is what is returned.
C15_InputResolutionFailureAborts ==
    /\ Has("blueprintLoad", "err")
           => (~Invoked("findDistro") /\ ~Invoked("getOneImage"))
    /\ \A s \in {"blueprintLoad", "findDistro", "getOneImage"} :
           Has(s, "err")
               => /\ calls[Len(calls)] = <<s, "err">>
                  /\ pc = "done"
                  /\ result = (CASE s = "blueprintLoad" -> "BlueprintErr"
                                 [] s = "findDistro" -> "DistroErr"
                                 [] s = "getOneImage" -> "ImageErr")
                  /\ \A t \in Stages \cup {"uploaderFor", "archChecker"} :
                         ~Invoked(t)

\* a build whose blueprint did not load
C15_Witness ==
    /\ cmd = "build"
    /\ flags.blueprint = "bp.toml"
    /\ calls = << <<"blueprintLoad", "err">> >>
    /\ result = "BlueprintErr"

\* C16: the output directory handed to buildImage is distro-imageType-arch
\* of the resolved image when --output-dir is empty, and the value of the
\* flag, unchanged, when it is not.
C16_DefaultOutputDir ==
    Has("buildImage", "call")
        => /\ img # NoImage
           /\ buildOpts.OutputDir =
                  IF flags.outputDir = ""
                  THEN img.distro \o "-" \o img.type \o "-" \o img.arch
                  ELSE flags.outputDir

\* a build without --output-dir, called with the default directory
C16_Witness ==
    /\ Has("buildImage", "call")
    /\ flags.outputDir = ""
    /\ img = [distro |-> "centos-9", type |-> "qcow2", arch |-> "x86_64"]
    /\ buildOpts.OutputDir = "centos-9-qcow2-x86_64"

\* C17: the path handed to the upload is the path of the file
\* ImgType.Filename() in the directory ImgType.Name() of the output
\* directory that buildImage was called with in the same run, the default
\* directory included, for the image that was built.
C17_ArtifactPath ==
    Has("uploadImage", "call")
        => /\ Has("buildImage", "ok")
           /\ buildOpts.OutputDir # ""
           /\ imagePath = filepathClean(buildOpts.OutputDir)
                              \o "/" \o img.type \o "/" \o Filename(img.type)
           /\ img.type = args

\* an upload from the default output directory
C17_Witness ==
    /\ Has("uploadImage", "call")
    /\ flags.outputDir = ""
    /\ imagePath = "centos-9-ami-x86_64/ami/image.raw"

\* C18: whenever cmdBuild has returned after starting the reporter, with
\* success or with the error of any stage, with or without a signal, the
\* reporter is stopped.
C18_StoppedOnEveryReturn ==
    (cmd = "build" /\ pc = "done")
        => IF result = "ProgressErr"
           THEN pbar.state = "new"
           ELSE pbar.state = "stopped" /\ pbar.stopCalls >= 1

\* an error return without any signal: only the deferred Stop ran
C18_Witness ==
    /\ cmd = "build" /\ pc = "done"
    /\ result = "AccessCheckErr"
    /\ signals = 0
    /\ pbar.state = "stopped"
    /\ pbar.stopCalls = 1

\* C19: uploaderFor is called only after generateManifest returned success:
\* a run whose manifest stage failed returns that error without calling
\* uploaderFor, also with a partial upload configuration, and the partial
\* configuration error is returned only after a successful generateManifest.
C19_UploadConfigAfterManifest ==
    /\ \A j \in 1..Len(calls) :
           calls[j][1] = "uploaderFor"
               => \E i \in 1..(j - 1) : calls[i] = <<"generateManifest", "ok">>
    /\ (cmd = "build" /\ result \in ManifestStageErrs)
           => (~Invoked("uploaderFor") /\ uploadErr = NilErr)
    /\ result = "PartialUploadConfig" => Has("generateManifest", "ok")

\* the manifest generation failed in a build with a partial configuration
C19_Witness ==
    /\ cmd = "build" /\ args = "ami"
    /\ flags.upload = {"aws-bucket"}
    /\ result = "ManifestErr"
    /\ ~Invoked("uploaderFor")

\* C20: in a build without any signal every setter call of the main flow is
\* made on the running reporter, after Start and before the first Stop; a
\* setter call on a stopped reporter happens only after the watcher has
\* stopped the reporter on a signal.
C20_SettersWhileRunning ==
    /\ cmd = "build" => pbar.earlySets = 0
    /\ (cmd = "build" /\ signals = 0) => pbar.lateSets = 0
    /\ (cmd = "build" /\ pbar.lateSets = 1)
           => (watcher = "exited" /\ signals >= 1)

\* the watcher stopped the reporter and the main flow set a message after
C20_Witness ==
    /\ cmd = "build"
    /\ watcher = "exited"
    /\ pbar.lateSets = 1
    /\ pbar.pulse = "Image building step"

====
